---- MODULE Spec2Model ----
(***************************************************************************)
(* Dual-target rendering of the part viewer: the scene tree of ModelParts, *)
(* the desktop render refresh of MainWindow, and the VR worker             *)
(* (VRRenderThread, a QThread) that the GUI thread populates, starts and   *)
(* commands.                                                               *)
(*                                                                         *)
(* Two threads are modelled.  The GUI thread runs MainWindow's handlers    *)
(* (each handler is one action, the GUI being single-threaded) and the     *)
(* public methods of VRRenderThread; a method that touches state the       *)
(* worker thread also touches is split at each shared access.  Each worker *)
(* thread runs VRRenderThread::run(), one action per shared access.        *)
(***************************************************************************)
EXTENDS Integers, Sequences, FiniteSets, TLC

VARIABLES
    parts,       \* every ModelPart ever created below the root, by identity
    tree,        \* rootItem->m_childItems: the identities of the top-level rows
    viewProps,   \* the part actors held by the desktop vtkRenderer
    extraProps,  \* the other props of the desktop renderer (cylinder, skybox)
    vrThread,    \* MainWindow::vrThread, the window's worker pointer
    workers,     \* every VRRenderThread ever constructed, by identity
    gui,         \* the GUI thread's position inside a VRRenderThread method
    offered,     \* the actors the last handler passed to addActorOffline
    lastOp,      \* the handler that last changed the scene
    crashed      \* a call was made through the uninitialised worker pointer

vars == <<parts, tree, viewProps, extraProps, vrThread, workers, gui,
          offered, lastOp, crashed>>

appVars == <<parts, tree, viewProps, extraProps, vrThread, offered, crashed>>

----------------------------------------------------------------------------
(* Bounds *)

MaxParts == 2      \* ModelParts created in one run
MaxWorkers == 2    \* VRRenderThreads constructed in one run
MaxActors == 2     \* actors held by one worker's collection
MaxBatch == 2      \* files picked in one Open File dialog
MaxRows == 3       \* rows of a child list a selection is taken from

RotVals == {0, 180}            \* rotation increments (degrees) the GUI sets
Names == {"a.stl", "b.stl"}    \* display names of the files on disk
Colors == {"white", "red"}     \* QColor(255,255,255) is the default

----------------------------------------------------------------------------
(* VRRenderThread: the commands, the actor records, the object             *)

Commands == {"END_RENDER", "ROTATE_X", "ROTATE_Y", "ROTATE_Z",
             "TOGGLE_VISIBILITY"}

\* A vtkActor built for VR.  part/geom: the Part and the geometry its mapper
\* reads; prop: the Part whose vtkProperty object the actor references
\* (0: a property of its own); vis: vtkProp::Visibility; placed: the
\* RotateX(-90)/AddPosition of addActorOffline was applied; rx, ry, rz: the
\* angles the render loop has applied about each axis.
NewActor(p, g, pr) ==
    [part |-> p, geom |-> g, prop |-> pr, vis |-> TRUE, placed |-> FALSE,
     rx |-> 0, ry |-> 0, rz |-> 0]

PlainActor == NewActor(0, <<>>, 0)

\* The object after VRRenderThread::VRRenderThread: an empty collection and
\* zero increments.  endRender is not initialised by the constructor: e is
\* whatever the memory held.
NewWorker(e) ==
    [running |-> "idle", pc |-> "none", endRender |-> e,
     rotateX |-> 0, rotateY |-> 0, rotateZ |-> 0,
     actors |-> <<>>, cur |-> 0, vrRenderer |-> {}, done |-> FALSE,
     mutex |-> "free", queuedActors |-> <<>>,
     tripped |-> FALSE]     \* more than 20 ms since t_last at the last test

WorkerIds == 1..Len(workers)

\* QThread::isRunning(): true from start() until run() has returned.
isRunning(w) == workers[w].running = "running"

\* vtkCollection::InitTraversal and GetNextItemAsObject on the one cursor the
\* collection owns (0 is the null element).
Top(s) == IF Len(s) = 0 THEN 0 ELSE 1
NextElem(s, c) == IF c < Len(s) THEN c + 1 ELSE 0

\* The values a command is issued with: an angle for a rotation, 0 or 1 for
\* the visibility (compared with 0.5), 0 for END_RENDER.
CommandValues(cmd) ==
    CASE cmd \in {"ROTATE_X", "ROTATE_Y", "ROTATE_Z"} -> RotVals
      [] cmd = "TOGGLE_VISIBILITY" -> {0, 1}
      [] OTHER -> {0}

GuiIdle == [pc |-> "idle", w |-> 0, cmd |-> "none", val |-> 0,
            x |-> 0, y |-> 0, z |-> 0]

----------------------------------------------------------------------------
(* VRRenderThread methods, called on the GUI thread                        *)

\* An addActorOffline without the isRunning() test.
addActorOfflineUnguarded(ws, w, a) ==
    LET b == [a EXCEPT !.placed = TRUE]
    IN [workers |-> [ws EXCEPT ![w].actors = Append(@, b)], actor |-> b]

\* addActorOffline(actor) on worker w: only while the thread is not running,
\* the actor is turned and moved into view and appended to the collection.
\* The result is the workers after the call and the actor object as the
\* call left it.
addActorOffline(ws, w, a) ==
    IF ~(ws[w].running = "running")
    THEN LET b == [a EXCEPT !.placed = TRUE]
         IN [workers |-> [ws EXCEPT ![w].actors = Append(@, b)],
             actor |-> b]
    ELSE [workers |-> ws, actor |-> a]

\* QThread::start(): isRunning() is true from here on; the new thread begins
\* run() at its first line.
start(ws, w) == [ws EXCEPT ![w].running = "running", ![w].pc = "bindInit"]

\* The direct (unsynchronised) API call of addActorOffline by the GUI thread.
AddActorOffline(w) ==
    /\ gui.pc = "idle" /\ ~crashed
    /\ Len(workers[w].actors) < MaxActors
    /\ workers' = addActorOffline(workers, w, PlainActor).workers
    /\ UNCHANGED <<appVars, gui, lastOp>>

Start(w) ==
    /\ gui.pc = "idle" /\ ~crashed
    /\ workers[w].running = "idle"
    /\ workers' = start(workers, w)
    /\ UNCHANGED <<appVars, gui, lastOp>>

\* issueCommand(cmd, value): the GUI thread enters the method ...
CallIssueCommand(w, cmd, value) ==
    /\ gui.pc = "idle" /\ ~crashed
    /\ gui' = [GuiIdle EXCEPT !.pc = "issue", !.w = w, !.cmd = cmd,
                              !.val = value]
    /\ UNCHANGED <<appVars, workers, lastOp>>

\* ... and runs the switch: one plain store for END_RENDER and ROTATE_*, the
\* InitTraversal of the whole-collection loop for TOGGLE_VISIBILITY.
IssueCommand ==
    /\ gui.pc = "issue"
    /\ LET w == gui.w IN
       \/ /\ gui.cmd = "END_RENDER"
          /\ workers' = [workers EXCEPT ![w].endRender = TRUE]
          /\ gui' = GuiIdle
       \/ /\ gui.cmd = "ROTATE_X"
          /\ workers' = [workers EXCEPT ![w].rotateX = gui.val]
          /\ gui' = GuiIdle
       \/ /\ gui.cmd = "ROTATE_Y"
          /\ workers' = [workers EXCEPT ![w].rotateY = gui.val]
          /\ gui' = GuiIdle
       \/ /\ gui.cmd = "ROTATE_Z"
          /\ workers' = [workers EXCEPT ![w].rotateZ = gui.val]
          /\ gui' = GuiIdle
       \/ /\ gui.cmd = "TOGGLE_VISIBILITY"
          /\ workers' = [workers EXCEPT ![w].cur = Top(workers[w].actors)]
          /\ gui' = [gui EXCEPT !.pc = "toggleNext"]
    /\ UNCHANGED <<appVars, lastOp>>

\* One turn of the TOGGLE_VISIBILITY loop: GetNextActor(), then either the
\* end of the method or SetVisibility(value > 0.5) on the actor returned.
ToggleNext ==
    /\ gui.pc = "toggleNext"
    /\ LET w == gui.w
           c == workers[w].cur
       IN IF c = 0
          THEN /\ gui' = GuiIdle
               /\ UNCHANGED workers
          ELSE /\ workers' = [workers EXCEPT
                     ![w].cur = NextElem(workers[w].actors, c),
                     ![w].actors[c].vis = (gui.val = 1)]
               /\ UNCHANGED gui
    /\ UNCHANGED <<appVars, lastOp>>

\* setRotation(x, y, z): three plain stores, one after the other.
CallSetRotation(w, x, y, z) ==
    /\ gui.pc = "idle" /\ ~crashed
    /\ gui' = [GuiIdle EXCEPT !.pc = "setRotX", !.w = w, !.x = x, !.y = y,
                              !.z = z]
    /\ UNCHANGED <<appVars, workers, lastOp>>

SetRotationX ==
    /\ gui.pc = "setRotX"
    /\ workers' = [workers EXCEPT ![gui.w].rotateX = gui.x]
    /\ gui' = [gui EXCEPT !.pc = "setRotY"]
    /\ UNCHANGED <<appVars, lastOp>>

SetRotationY ==
    /\ gui.pc = "setRotY"
    /\ workers' = [workers EXCEPT ![gui.w].rotateY = gui.y]
    /\ gui' = [gui EXCEPT !.pc = "setRotZ"]
    /\ UNCHANGED <<appVars, lastOp>>

SetRotationZ ==
    /\ gui.pc = "setRotZ"
    /\ workers' = [workers EXCEPT ![gui.w].rotateZ = gui.z]
    /\ gui' = GuiIdle
    /\ UNCHANGED <<appVars, lastOp>>

\* clearAllActors(): QMutexLocker waits for the mutex, queuedActors is
\* cleared, the locker releases the mutex on return.
CallClearAllActors(w) ==
    /\ gui.pc = "idle" /\ ~crashed
    /\ gui' = [GuiIdle EXCEPT !.pc = "clearLock", !.w = w]
    /\ UNCHANGED <<appVars, workers, lastOp>>

ClearLock ==
    /\ gui.pc = "clearLock"
    /\ workers[gui.w].mutex = "free"
    /\ workers' = [workers EXCEPT ![gui.w].mutex = "gui"]
    /\ gui' = [gui EXCEPT !.pc = "clearBody"]
    /\ UNCHANGED <<appVars, lastOp>>

ClearBody ==
    /\ gui.pc = "clearBody"
    /\ workers' = [workers EXCEPT ![gui.w].queuedActors = <<>>,
                                  ![gui.w].mutex = "free"]
    /\ gui' = GuiIdle
    /\ UNCHANGED <<appVars, lastOp>>

----------------------------------------------------------------------------
(* VRRenderThread::run(), on the worker's own thread                       *)

\* A run() that held the mutex through each turn of its loop.
RunMutexHeldInLoop(m, pc) ==
    IF m = "gui" THEN m
    ELSE IF pc \in {"event", "gate", "rotX", "rotY", "rotZ"} THEN "worker"
    ELSE "free"

\* What a step of run() does to the object's mutex: nothing, run() never
\* locks or unlocks it.
RunMutex(m, pc) == m

\* A step of run() by worker w taking the object from s to t.
RunStep(w, t) ==
    /\ workers' = [workers EXCEPT
                     ![w] = [t EXCEPT !.mutex = RunMutex(t.mutex, t.pc)]]
    /\ UNCHANGED <<appVars, gui, lastOp>>

AtPc(w, pc) == workers[w].running = "running" /\ workers[w].pc = pc

\* Lines 112-123: colours and renderer are created, the traversal of the
\* pre-queued actors is initialised.
RunBindInit(w) ==
    /\ AtPc(w, "bindInit")
    /\ RunStep(w, [workers[w] EXCEPT !.cur = Top(workers[w].actors),
                                     !.pc = "bindNext"])

\* Lines 124-141: GetNextActor(); the actor returned is added to the VR
\* renderer; on null the loop ends and window, camera and interactor are
\* set up.
RunBindNext(w) ==
    /\ AtPc(w, "bindNext")
    /\ LET s == workers[w] IN
       IF s.cur = 0
       THEN RunStep(w, [s EXCEPT !.pc = "reset"])
       ELSE RunStep(w, [s EXCEPT !.cur = NextElem(s.actors, s.cur),
                                 !.vrRenderer = @ \cup {s.cur}])

\* Lines 144-145: endRender = false; t_last = now.
RunReset(w) ==
    /\ AtPc(w, "reset")
    /\ RunStep(w, [workers[w] EXCEPT !.endRender = FALSE,
                                     !.tripped = FALSE, !.pc = "test"])

\* A loop condition that tests the interactor only.
RunTestOfDoneOnly(w) ==
    /\ AtPc(w, "test")
    /\ LET s == workers[w] IN
       IF s.done
       THEN RunStep(w, [s EXCEPT !.pc = "done", !.running = "finished"])
       ELSE RunStep(w, [s EXCEPT !.pc = "event"])

\* Line 147: the loop condition.  When it fails run() returns and the
\* thread has finished.
RunTest(w) ==
    /\ AtPc(w, "test")
    /\ LET s == workers[w] IN
       IF s.done \/ s.endRender
       THEN RunStep(w, [s EXCEPT !.pc = "done", !.running = "finished"])
       ELSE RunStep(w, [s EXCEPT !.pc = "event"])

\* Line 148: DoOneEvent handles one event of the VR runtime; a quit event
\* sets the interactor's Done flag.
RunEvent(w) ==
    /\ AtPc(w, "event")
    /\ \E quit \in BOOLEAN :
         RunStep(w, [workers[w] EXCEPT !.done = @ \/ quit, !.pc = "gate"])

\* Lines 151-152: more than 20 ms since t_last, or not; once more than
\* 20 ms have passed they stay passed until t_last is set again.
RunGate(w) ==
    /\ AtPc(w, "gate")
    /\ \E elapsed \in BOOLEAN :
         LET over == workers[w].tripped \/ elapsed IN
         RunStep(w, [workers[w] EXCEPT
                       !.tripped = over,
                       !.pc = IF over THEN "rotX" ELSE "test"])

Turn(a, axis, by) ==
    CASE axis = "x" -> [a EXCEPT !.rx = (@ + by) % 360]
      [] axis = "y" -> [a EXCEPT !.ry = (@ + by) % 360]
      [] axis = "z" -> [a EXCEPT !.rz = (@ + by) % 360]

\* One of the three loops over renderer->GetActors().
RotateAll(s, axis, by) ==
    [i \in 1..Len(s.actors) |->
        IF i \in s.vrRenderer THEN Turn(s.actors[i], axis, by)
        ELSE s.actors[i]]

\* Lines 155-159.
RunRotX(w) ==
    /\ AtPc(w, "rotX")
    /\ LET s == workers[w] IN
       RunStep(w, [s EXCEPT !.actors = RotateAll(s, "x", s.rotateX),
                            !.pc = "rotY"])

\* Lines 162-165.
RunRotY(w) ==
    /\ AtPc(w, "rotY")
    /\ LET s == workers[w] IN
       RunStep(w, [s EXCEPT !.actors = RotateAll(s, "y", s.rotateY),
                            !.pc = "rotZ"])

\* A Z loop that leaves t_last as it is.
RunRotZKeepingLast(w) ==
    /\ AtPc(w, "rotZ")
    /\ LET s == workers[w] IN
       RunStep(w, [s EXCEPT !.actors = RotateAll(s, "z", s.rotateZ),
                            !.pc = "test"])

\* Lines 168-174: the Z loop, then t_last = now.
RunRotZ(w) ==
    /\ AtPc(w, "rotZ")
    /\ LET s == workers[w] IN
       RunStep(w, [s EXCEPT !.actors = RotateAll(s, "z", s.rotateZ),
                            !.tripped = FALSE,
                            !.pc = "test"])

Run(w) ==
    \/ RunBindInit(w) \/ RunBindNext(w) \/ RunReset(w) \/ RunTest(w)
    \/ RunEvent(w) \/ RunGate(w) \/ RunRotX(w) \/ RunRotY(w) \/ RunRotZ(w)

----------------------------------------------------------------------------
(* ModelPart                                                               *)

\* Geometry is named by the filters applied to the loaded mesh, in order:
\* a sequence of <<filter, parameter>> pairs.  Shrink factors are in tenths.
Original == <<>>

DefaultShrinkFactor == 8       \* shrinkFactor = 0.8
FactorVals == {0, 5, 20}       \* factors a caller passes: 0.0, 0.5, 2.0

\* vtkShrinkFilter::SetShrinkFactor clamps its argument to [0, 1].
ClampFactor(f) == IF f < 0 THEN 0 ELSE IF f > 10 THEN 10 ELSE f

\* The ModelPart after its constructor (lines 392-401) with column data
\* {name, "true"}: white, visible, no filter, no VTK objects.
NewPart(name) ==
    [name |-> name, text1 |-> "true", isVisible |-> TRUE,
     partColor |-> "white", clipEnabled |-> FALSE, shrinkEnabled |-> FALSE,
     shrinkFactor |-> DefaultShrinkFactor,
     m_parentItem |-> 0,        \* the root item
     m_childItems |-> <<>>,
     file |-> FALSE,            \* the vtkSTLReader is held
     source |-> FALSE,          \* currentFilter is not null
     sourceGeom |-> Original,   \* what currentFilter's output port delivers
     actor |-> FALSE,           \* actor is not null
     actorId |-> 0,             \* which vtkActor object of the part it is
     actorColor |-> "white",    \* the colour of the actor's vtkProperty
     actorVis |-> TRUE,         \* the actor's Visibility
     mapperGeom |-> Original]   \* the geometry bound to the actor's mapper

\* An updateFilters that filters the geometry the mapper holds instead of a
\* fresh copy of the loaded mesh.
updateFiltersOnMapperInput(pt) ==
    IF ~pt.actor THEN pt
    ELSE [pt EXCEPT !.mapperGeom =
             @ \o (IF pt.shrinkEnabled
                   THEN << <<"shrink", ClampFactor(pt.shrinkFactor)>> >>
                   ELSE <<>>)
               \o (IF pt.clipEnabled THEN << <<"clip", 0>> >> ELSE <<>>)]

\* An updateFilters that puts the rebuilt geometry on a new actor.
updateFiltersOnNewActor(pt) ==
    IF ~pt.actor THEN pt
    ELSE [pt EXCEPT !.actorId = @ + 1,
                    !.mapperGeom =
             (IF pt.shrinkEnabled
              THEN << <<"shrink", ClampFactor(pt.shrinkFactor)>> >>
              ELSE <<>>)
             \o (IF pt.clipEnabled THEN << <<"clip", 0>> >> ELSE <<>>)]

\* updateFilters(): from a copy of the loaded mesh, shrink if enabled, then
\* clip if enabled; the result is bound to the mapper.  currentFilter is not
\* assigned.
updateFilters(pt) ==
    IF ~pt.actor THEN pt
    ELSE [pt EXCEPT !.mapperGeom =
             (IF pt.shrinkEnabled
              THEN << <<"shrink", ClampFactor(pt.shrinkFactor)>> >>
              ELSE <<>>)
             \o (IF pt.clipEnabled THEN << <<"clip", 0>> >> ELSE <<>>)]

\* loadSTL(fileName): a mesh without points or cells leaves the part without
\* actor; otherwise reader, mapper and actor are created, the actor takes
\* the part's colour, and the filters are applied.
loadSTL(pt, ok) ==
    IF ~ok THEN [pt EXCEPT !.actor = FALSE]
    ELSE updateFilters([pt EXCEPT !.file = TRUE, !.source = TRUE,
                                  !.sourceGeom = Original, !.actor = TRUE,
                                  !.actorId = @ + 1,
                                  !.actorColor = pt.partColor,
                                  !.actorVis = TRUE,
                                  !.mapperGeom = Original])

setName(pt, name) == [pt EXCEPT !.name = name]

setColor(pt, c) ==
    [pt EXCEPT !.partColor = c,
               !.actorColor = IF pt.actor THEN c ELSE @]

setVisible(pt, v) ==
    [pt EXCEPT !.isVisible = v,
               !.text1 = IF v THEN "true" ELSE "false",
               !.actorVis = IF pt.actor THEN v ELSE @]

\* applyClipFilter(enable, origin, normal) and applyShrinkFilter(enable,
\* factor): the flag is stored and the pipeline rebuilt.
applyClipFilter(pt, enable) ==
    updateFilters([pt EXCEPT !.clipEnabled = enable])

applyShrinkFilter(pt, enable, factor) ==
    updateFilters([pt EXCEPT !.shrinkEnabled = enable,
                             !.shrinkFactor = factor])

\* The argument-less filter functions the check boxes call (lines 246-320):
\* the filter is built on the reader's output, becomes currentFilter and the
\* mapper's input; removal reconnects the mapper to the reader and leaves
\* currentFilter as it is.
applyClipFilterOnFile(pt) ==
    IF ~pt.file THEN pt
    ELSE [pt EXCEPT !.source = TRUE,
                    !.sourceGeom = << <<"clipPoly", 0>> >>,
                    !.mapperGeom = << <<"clipPoly", 0>> >>]

removeClipFilter(pt) ==
    IF ~pt.file THEN pt ELSE [pt EXCEPT !.mapperGeom = Original]

applyShrinkFilterOnFile(pt) ==
    IF ~pt.file THEN pt
    ELSE [pt EXCEPT !.source = TRUE,
                    !.sourceGeom = << <<"shrinkPoly", 8>> >>,
                    !.mapperGeom = << <<"shrinkPoly", 8>> >>]

removeShrinkFilter(pt) ==
    IF ~pt.file THEN pt ELSE [pt EXCEPT !.mapperGeom = Original]

----------------------------------------------------------------------------
(* MainWindow: the render refresh                                          *)

NullThread == [kind |-> "null", w |-> 0]
WildThread == [kind |-> "wild", w |-> 0]
ThreadOf(w) == [kind |-> "worker", w |-> w]

\* The scene as the handlers see it, threaded through their steps.
Scene ==
    [parts |-> parts, tree |-> tree, viewProps |-> viewProps,
     extraProps |-> extraProps, vrThread |-> vrThread, workers |-> workers,
     offered |-> <<>>, crashed |-> FALSE, added |-> FALSE,
     visited |-> <<>>,          \* the parts a traversal has been called on
     notes |-> <<>>]            \* the model's notifications and list changes

\* Step 2 of updateRenderFromTree: a new mapper on getSource()'s output
\* port, a new actor on that mapper, SetProperty(onscreen->GetProperty())
\* - the desktop actor's own vtkProperty object, not a copy - and the
\* actor is handed to addActorOffline.
SecondaryActor(st, p) == NewActor(p, st.parts[p].sourceGeom, p)

\* An updateRenderFromTree that adds the part's actor without testing it.
updateRenderFromTreeUnchecked(st, p) ==
    IF st.crashed THEN st
    ELSE IF st.parts[p].isVisible
    THEN [st EXCEPT !.viewProps = @ \cup {p}] ELSE st

\* Steps 1 and 2 of updateRenderFromTree(index) for the index holding part
\* p.  For a part without children (ModelPartList::appendChild appends to
\* the root only) the recursion at the end finds hasChildren(index) false
\* and this is the whole call.
updateRenderFromTree(st, p) ==
    LET pt == st.parts[p]
        s1 == IF pt.actor /\ pt.isVisible
              THEN [st EXCEPT !.viewProps = @ \cup {p}] ELSE st
    IN  IF st.crashed THEN st
        ELSE IF s1.vrThread.kind # "null" /\ pt.source /\ pt.isVisible
        THEN IF s1.vrThread.kind = "wild"
             THEN [s1 EXCEPT !.crashed = TRUE]
             ELSE LET w == s1.vrThread.w
                      r == addActorOffline(s1.workers, w,
                                           SecondaryActor(s1, p))
                  IN [s1 EXCEPT
                        !.offered = Append(@,
                            [w |-> w,
                             running |-> s1.workers[w].running = "running",
                             actor |-> r.actor]),
                        !.workers = r.workers]
        ELSE s1

\* ModelPartList::rowCount(parent): the child count of the root for the
\* invalid index (part 0), of the part the index holds otherwise.
rowCount(st, p) ==
    IF p = 0 THEN Len(st.tree) ELSE Len(st.parts[p].m_childItems)

\* ModelPartList::index(row, 0, parent): hasIndex tests the row against
\* rowCount(parent), then the child is taken from the root whatever the
\* parent ("flat model"); 0 is the invalid index.  Row 1 is row 0 of the
\* code.
index(st, row, parent) ==
    IF row >= 1 /\ row <= rowCount(st, parent) /\ row <= Len(st.tree)
    THEN st.tree[row] ELSE 0

\* updateRenderFromTree(index) with its recursion: the part is visited,
\* then, if rowCount(index) is not zero, the function is called on
\* index(i, 0, index) for each i below it.  A chain of calls longer than
\* the number of parts is on a part it is already in and never returns:
\* the stack overflows.
RECURSIVE RenderFromTree(_, _, _)
RECURSIVE RenderChildren(_, _, _, _)
RenderFromTree(st, p, depth) ==
    IF p = 0 \/ st.crashed THEN st
    ELSE IF depth > Len(st.parts) + 1 THEN [st EXCEPT !.crashed = TRUE]
    ELSE LET s1 == updateRenderFromTree(
                       [st EXCEPT !.visited = Append(@, p)], p)
         IN IF rowCount(s1, p) = 0 THEN s1
            ELSE RenderChildren(s1, p, 1, depth + 1)

RenderChildren(st, p, i, depth) ==
    IF i > rowCount(st, p) \/ st.crashed THEN st
    ELSE RenderChildren(RenderFromTree(st, index(st, i, p), depth),
                        p, i + 1, depth)

RECURSIVE RenderRows(_, _)
RenderRows(st, i) ==
    IF i > Len(st.tree) THEN st
    ELSE RenderRows(RenderFromTree(st, index(st, i, 0), 1), i + 1)

\* An updateRender without RemoveAllViewProps().
updateRenderKeepingProps(st) == RenderRows(st, 1)

\* updateRender(): RemoveAllViewProps(), then every top-level row.
updateRender(st) ==
    RenderRows([st EXCEPT !.viewProps = {}, !.extraProps = {}], 1)

\* The state a handler leaves, and the bound on the workers' collections.
Commit(st, op) ==
    /\ \A w \in 1..Len(st.workers) : Len(st.workers[w].actors) <= MaxActors
    /\ parts' = st.parts /\ tree' = st.tree
    /\ viewProps' = st.viewProps /\ extraProps' = st.extraProps
    /\ vrThread' = st.vrThread /\ workers' = st.workers
    /\ offered' = st.offered /\ crashed' = st.crashed
    /\ lastOp' = op
    /\ UNCHANGED gui

----------------------------------------------------------------------------
(* MainWindow: the handlers                                                *)

GuiReady == gui.pc = "idle" /\ ~crashed

\* An appendChild that constructs the part with the last part created as
\* its parent and still appends it to the root's list.
appendChildUnderLast(st, name) ==
    [st EXCEPT !.parts = Append(@, [NewPart(name) EXCEPT
                                      !.m_parentItem = Len(st.parts)]),
               !.tree = Append(@, Len(st.parts) + 1)]

\* An appendChild that changes the list without telling the views.
appendChildUnannounced(st, name) ==
    [st EXCEPT !.parts = Append(@, [NewPart(name) EXCEPT !.m_parentItem = 0]),
               !.tree = Append(@, Len(st.parts) + 1),
               !.notes = Append(@, "appendChild")]

\* ModelPartList::appendChild(data): between beginInsertRows and
\* endInsertRows a new ModelPart with the root as its parent is appended to
\* the root's child list (ModelPart::appendChild sets the parent pointer
\* again).
appendChild(st, name) ==
    [st EXCEPT !.parts = Append(@, [NewPart(name) EXCEPT !.m_parentItem = 0]),
               !.tree = Append(@, Len(st.parts) + 1),
               !.notes = @ \o <<"beginInsertRows", "appendChild",
                                "endInsertRows">>]

TopLevelNames(st) == {st.parts[st.tree[i]].name : i \in 1..Len(st.tree)}

\* A loop turn without the duplicate check.
OpenOneUnchecked(st, f) ==
    IF st.crashed THEN st
    ELSE LET id == Len(st.parts) + 1
             s0 == appendChild(st, f.name)
             s1 == [s0 EXCEPT !.parts[id] = loadSTL(@, f.ok)]
         IN [updateRender(s1) EXCEPT !.added = TRUE]

\* One turn of openFile's loop: a file whose name a top-level row already
\* shows is skipped; otherwise a part is appended to the root, loaded, and
\* the scene is rebuilt.  A batch of skipped files only changes nothing.
OpenOne(st, f) ==
    IF st.crashed \/ f.name \in TopLevelNames(st) THEN st
    ELSE LET id == Len(st.parts) + 1
             s0 == appendChild(st, f.name)
             s1 == [s0 EXCEPT !.parts[id] = loadSTL(@, f.ok)]
         IN [updateRender(s1) EXCEPT !.added = TRUE]

\* A loop that gives up the batch at the first file that fails to load.
RECURSIVE OpenAllUntilFailure(_, _)
OpenAllUntilFailure(st, fs) ==
    IF fs = <<>> THEN st
    ELSE IF ~Head(fs).ok THEN OpenOne(st, Head(fs))
    ELSE OpenAllUntilFailure(OpenOne(st, Head(fs)), Tail(fs))

RECURSIVE OpenAll(_, _)
OpenAll(st, fs) ==
    IF fs = <<>> THEN st ELSE OpenAll(OpenOne(st, Head(fs)), Tail(fs))

FileChoices == [name : Names, ok : BOOLEAN]
Batches == UNION {[1..n -> FileChoices] : n \in 1..MaxBatch}

openFile(fs) ==
    /\ GuiReady
    /\ LET st == OpenAll(Scene, fs) IN
       /\ st.added
       /\ Len(st.parts) <= MaxParts
       /\ Commit(st, "openFile")

\* openFile with a batch every file of which is skipped as a duplicate: the
\* loop ends without a part appended and without a refresh.
openFileRejected(fs) ==
    /\ GuiReady
    /\ LET st == OpenAll(Scene, fs) IN
       /\ ~st.added
       /\ Commit(st, "openFileRejected")

\* on_actionItemOptions_triggered with the dialog accepted: Option_Dialog's
\* accept() and the handler both set name, colour and visibility; the
\* window is redrawn with Render(), the renderer's props are not rebuilt.
on_actionItemOptions_triggered(row, name, color, visible) ==
    /\ GuiReady
    /\ row \in 1..Len(tree)
    /\ LET p == tree[row]
           pt == setVisible(setColor(setName(parts[p], name), color),
                            visible)
       IN Commit([Scene EXCEPT !.parts[p] = pt], "itemOptions")

\* refreshSelectedActor(): the selected part's actor, if any, is removed
\* from the renderer and added again.
refreshSelectedActor(st, p) ==
    IF st.parts[p].actor THEN [st EXCEPT !.viewProps = @ \cup {p}] ELSE st

on_checkBox_Clip_toggled(row, checked) ==
    /\ GuiReady
    /\ row \in 1..Len(tree)
    /\ LET p == tree[row]
           pt == IF checked THEN applyClipFilterOnFile(parts[p])
                 ELSE removeClipFilter(parts[p])
       IN Commit(refreshSelectedActor([Scene EXCEPT !.parts[p] = pt], p),
                 "clipToggled")

on_checkBox_Shrink_toggled(row, checked) ==
    /\ GuiReady
    /\ row \in 1..Len(tree)
    /\ LET p == tree[row]
           pt == IF checked THEN applyShrinkFilterOnFile(parts[p])
                 ELSE removeShrinkFilter(parts[p])
       IN Commit(refreshSelectedActor([Scene EXCEPT !.parts[p] = pt], p),
                 "shrinkToggled")

\* ModelPart::removeChild(row) on a child list (rows count from 1 here, from
\* 0 in the code): the pointer is taken out of the list, the part object is
\* not deleted.
removeChild(t, row) ==
    IF row >= 1 /\ row <= Len(t)
    THEN [i \in 1..(Len(t) - 1) |-> IF i < row THEN t[i] ELSE t[i + 1]]
    ELSE t

RECURSIVE RemoveAtRow(_, _, _)
RemoveAtRow(t, row, count) ==
    IF count = 0 THEN t ELSE RemoveAtRow(removeChild(t, row), row, count - 1)

\* A removeRows whose range test lets the row after the last one pass.
removeRowsPastEnd(t, row, count) ==
    IF row < 1 \/ row + count > Len(t) + 2
    THEN [ret |-> FALSE, tree |-> t, notes |-> <<>>]
    ELSE [ret |-> TRUE, tree |-> RemoveAtRow(t, row, count),
          notes |-> <<"beginRemoveRows">>
                    \o [i \in 1..count |-> "removeChild"]
                    \o <<"endRemoveRows">>]

\* ModelPartList::removeRows(row, count, parent) on the root's child list t:
\* a range that is not inside the list is refused with false, otherwise
\* count children are removed at row between beginRemoveRows and
\* endRemoveRows, and true is returned.
removeRows(t, row, count) ==
    IF row < 1 \/ row + count > Len(t) + 1
    THEN [ret |-> FALSE, tree |-> t, notes |-> <<>>]
    ELSE [ret |-> TRUE, tree |-> RemoveAtRow(t, row, count),
          notes |-> <<"beginRemoveRows">>
                    \o [i \in 1..count |-> "removeChild"]
                    \o <<"endRemoveRows">>]

\* ModelPartList::removeRow(row, parent).
removeRow(t, row) == removeRows(t, row, 1)

\* The selected rows, highest first, removed one after the other.
RECURSIVE RemoveDescending(_, _)
RemoveDescending(t, rows) ==
    IF rows = {} THEN t
    ELSE LET r == CHOOSE x \in rows : \A y \in rows : y <= x
         IN RemoveDescending(removeRow(t, r).tree, rows \ {r})

\* A deletion that leaves the renderer as it is.
DeleteRowsWithoutRefresh(st, rows) ==
    [st EXCEPT !.tree = RemoveDescending(st.tree, rows)]

\* The notifications and list changes of that loop.
RECURSIVE NotesDescending(_, _)
NotesDescending(t, rows) ==
    IF rows = {} THEN <<>>
    ELSE LET r == CHOOSE x \in rows : \A y \in rows : y <= x
         IN removeRow(t, r).notes
            \o NotesDescending(removeRow(t, r).tree, rows \ {r})

\* What deleteSelectedItem does to the scene once the user has confirmed:
\* the rows are removed, then the renderer is refreshed.
DeleteRows(st, rows) ==
    updateRender([st EXCEPT !.tree = RemoveDescending(st.tree, rows),
                            !.notes = @ \o NotesDescending(st.tree, rows)])

deleteSelectedItem(rows) ==
    /\ GuiReady
    /\ rows # {} /\ rows \subseteq 1..Len(tree)
    /\ Commit(DeleteRows(Scene, rows), "delete")

\* handleStartVR(): a new VRRenderThread replaces the pointer, the row at
\* index(0, 0) is passed to updateRenderFromTree, the thread is started.
handleStartVR(e) ==
    /\ GuiReady
    /\ Len(workers) < MaxWorkers
    /\ LET w == Len(workers) + 1
           s1 == [Scene EXCEPT !.workers = Append(@, NewWorker(e)),
                               !.vrThread = ThreadOf(w)]
           s2 == RenderFromTree(s1, index(s1, 1, 0), 1)
       IN Commit([s2 EXCEPT !.workers = start(s2.workers, w)],
                 "startVR")

----------------------------------------------------------------------------
(* The application: MainWindow after its constructor, the user's actions,  *)
(* and the threads of the workers started.                                 *)

\* vrThread has no initialiser in the constructor: it is null or not,
\* whatever the memory held.
Init ==
    /\ parts = <<>> /\ tree = <<>> /\ viewProps = {}
    /\ extraProps = {"cylinder"}
    /\ vrThread \in {NullThread, WildThread}
    /\ workers = <<>>
    /\ gui = GuiIdle /\ offered = <<>> /\ lastOp = "construct"
    /\ crashed = FALSE

\* run() from its first line to its return, for a worker no method is
\* called on while it runs (MainWindow calls none but addActorOffline, which
\* leaves a running worker alone): every pre-queued actor is bound, endRender
\* is cleared, the loop turns with zero increments until the interactor is
\* done.
RunReturns(w) ==
    /\ isRunning(w) /\ gui.pc = "idle"
    /\ workers' = [workers EXCEPT
          ![w].vrRenderer = 1..Len(workers[w].actors),
          ![w].cur = 0, ![w].endRender = FALSE, ![w].done = TRUE,
          ![w].pc = "done", ![w].running = "finished"]
    /\ UNCHANGED <<appVars, gui, lastOp>>

\* The dialog opened on a row and accepted with the name left as it is.
EditOptions(row, c, v) ==
    /\ row \in 1..Len(tree)
    /\ on_actionItemOptions_triggered(row, parts[tree[row]].name, c, v)

Next ==
    \/ \E fs \in Batches : openFile(fs)
    \/ \E row \in 1..MaxParts, c \in Colors, v \in BOOLEAN :
          EditOptions(row, c, v)
    \/ \E rows \in SUBSET (1..MaxParts) : deleteSelectedItem(rows)
    \/ \E e \in BOOLEAN : handleStartVR(e)
    \/ \E w \in WorkerIds : RunReturns(w)

Spec == Init /\ [][Next]_vars

----------------------------------------------------------------------------
(* The filters: files are loaded, the check boxes are toggled on a row,    *)
(* the filter setters of ModelPart are called on a part, VR is started.    *)

\* part->applyClipFilter(enable, origin, normal) on the part of a row.
ApplyClipFilter(row, enable) ==
    /\ GuiReady
    /\ row \in 1..Len(tree)
    /\ LET p == tree[row] IN
       Commit([Scene EXCEPT !.parts[p] = applyClipFilter(parts[p], enable)],
              "applyClipFilter")

\* part->applyShrinkFilter(enable, 0.8) on the part of a row.
ApplyShrinkFilter(row, enable) ==
    /\ GuiReady
    /\ row \in 1..Len(tree)
    /\ LET p == tree[row] IN
       Commit([Scene EXCEPT !.parts[p] =
                 applyShrinkFilter(parts[p], enable, DefaultShrinkFactor)],
              "applyShrinkFilter")

\* The row selected in the tree view stays the first one.
NextFilter ==
    \/ \E f \in FileChoices : openFile(<<f>>)
    \/ \E b \in BOOLEAN : on_checkBox_Clip_toggled(1, b)
    \/ \E b \in BOOLEAN : on_checkBox_Shrink_toggled(1, b)
    \/ \E b \in BOOLEAN : ApplyClipFilter(1, b)
    \/ \E b \in BOOLEAN : ApplyShrinkFilter(1, b)
    \/ \E e \in BOOLEAN : handleStartVR(e)

SpecFilter == Init /\ [][NextFilter]_vars

----------------------------------------------------------------------------
(* The VRRenderThread class on its own: one worker, constructed, driven    *)
(* through its public methods by the GUI thread.                           *)

InitVR ==
    /\ parts = <<>> /\ tree = <<>> /\ viewProps = {}
    /\ extraProps = {"cylinder"}
    /\ \E e \in BOOLEAN : workers = <<NewWorker(e)>>
    /\ vrThread = [kind |-> "worker", w |-> 1]
    /\ gui = GuiIdle /\ offered = <<>> /\ lastOp = "construct"
    /\ crashed = FALSE

NextVR ==
    \/ \E w \in WorkerIds : AddActorOffline(w)
    \/ \E w \in WorkerIds : Start(w)
    \/ \E w \in WorkerIds, cmd \in Commands :
          \E v \in CommandValues(cmd) : CallIssueCommand(w, cmd, v)
    \/ IssueCommand
    \/ ToggleNext
    \/ \E w \in WorkerIds, r \in RotVals : CallSetRotation(w, r, r, r)
    \/ SetRotationX \/ SetRotationY \/ SetRotationZ
    \/ \E w \in WorkerIds : CallClearAllActors(w)
    \/ ClearLock \/ ClearBody
    \/ \E w \in WorkerIds : Run(w)

SpecVR == InitVR /\ [][NextVR]_vars

\* The operating system schedules a started thread: run() keeps taking
\* steps, and a method the GUI thread has entered runs to its end.
GuiMethodStep ==
    \/ IssueCommand \/ ToggleNext \/ SetRotationX \/ SetRotationY
    \/ SetRotationZ \/ ClearLock \/ ClearBody

FairSpecVR ==
    /\ SpecVR
    /\ \A w \in 1..MaxWorkers : WF_vars(w \in WorkerIds /\ Run(w))
    /\ WF_vars(GuiMethodStep)

\* The stop request alone: actors are pre-queued, the thread is started,
\* END_RENDER is issued, the thread runs.
NextStop ==
    \/ \E w \in WorkerIds : AddActorOffline(w)
    \/ \E w \in WorkerIds : Start(w)
    \/ \E w \in WorkerIds : CallIssueCommand(w, "END_RENDER", 0)
    \/ IssueCommand
    \/ \E w \in WorkerIds : Run(w)

SpecStop == InitVR /\ [][NextStop]_vars

FairSpecStop ==
    /\ SpecStop
    /\ \A w \in 1..MaxWorkers : WF_vars(w \in WorkerIds /\ Run(w))
    /\ WF_vars(IssueCommand)

----------------------------------------------------------------------------
(* The stop request                                                        *)

\* The GUI thread is inside issueCommand(END_RENDER, 0) on a started worker.
StopRequested ==
    /\ gui.pc = "issue" /\ gui.cmd = "END_RENDER"
    /\ workers[gui.w].running # "idle"

\* C1: a stop request is never lost - whenever the GUI thread is in
\* issueCommand(END_RENDER, 0) on a worker that has been started, even one
\* that has not reached its render loop yet, that worker eventually leaves
\* the loop and its thread finishes.
StopRequestNeverLost ==
    \A w \in 1..MaxWorkers :
        (w \in WorkerIds /\ StopRequested /\ gui.w = w)
            ~> (w \in WorkerIds /\ workers[w].running = "finished")

----------------------------------------------------------------------------
(* The accesses to the state the two threads share                         *)

\* The members of worker w the GUI thread reads or writes in its next step.
GuiAccess(w) ==
    IF gui.w # w THEN {}
    ELSE CASE gui.pc = "issue" ->
                (CASE gui.cmd = "END_RENDER" -> {"endRender"}
                   [] gui.cmd = "ROTATE_X" -> {"rotateX"}
                   [] gui.cmd = "ROTATE_Y" -> {"rotateY"}
                   [] gui.cmd = "ROTATE_Z" -> {"rotateZ"}
                   [] OTHER -> {"actors"})
           [] gui.pc = "toggleNext" -> {"actors"}
           [] gui.pc = "setRotX" -> {"rotateX"}
           [] gui.pc = "setRotY" -> {"rotateY"}
           [] gui.pc = "setRotZ" -> {"rotateZ"}
           [] gui.pc = "clearBody" -> {"queuedActors"}
           [] OTHER -> {}

\* The members worker w's own thread reads or writes in its next step (the
\* rotation loops turn the actor objects the collection holds).
WorkerAccess(w) ==
    IF ~isRunning(w) THEN {}
    ELSE CASE workers[w].pc \in {"bindInit", "bindNext"} -> {"actors"}
           [] workers[w].pc \in {"reset", "test"} -> {"endRender"}
           [] workers[w].pc = "rotX" -> {"rotateX", "actors"}
           [] workers[w].pc = "rotY" -> {"rotateY", "actors"}
           [] workers[w].pc = "rotZ" -> {"rotateZ", "actors"}
           [] OTHER -> {}

\* C2: every access to the shared state is made under the worker's mutex -
\* the GUI thread and the worker thread are never both about to access the
\* same member (stop flag, a rotation increment, the actor collection)
\* unless one of them holds the mutex.
SharedAccessUnderMutex ==
    \A w \in WorkerIds :
        GuiAccess(w) \cap WorkerAccess(w) # {} => workers[w].mutex # "free"

----------------------------------------------------------------------------
(* The GUI thread never waits for the worker                               *)

\* C5: no call the GUI thread makes on a worker can block on the worker
\* thread - a method the GUI thread has entered can always take its next
\* step, whatever the worker thread is doing.
GuiNeverBlocks == gui.pc # "idle" => ENABLED GuiMethodStep

\* The GUI thread is about to take the mutex in clearAllActors while the
\* worker thread is inside its render loop.
GuiLocksWhileWorkerLoops ==
    /\ gui.pc = "clearLock"
    /\ isRunning(gui.w)
    /\ workers[gui.w].pc \in {"rotX", "rotY", "rotZ"}

----------------------------------------------------------------------------
(* The worker's collection while its thread runs                           *)

\* C3: from start() until the thread has finished no handler of the GUI
\* thread writes the worker's collection - a refresh made while the worker
\* is running leaves its actors as they were, and an actor handed to
\* addActorOffline of a running worker comes back without the placement
\* transform.
RunningWorkerLeftAlone ==
    [][/\ \A w \in WorkerIds :
            isRunning(w) => workers'[w].actors = workers[w].actors
       /\ \A i \in 1..Len(offered') :
            offered'[i].running => ~offered'[i].actor.placed]_vars

\* A file load has refreshed the scene while the window's worker was
\* running, and handed it an actor.
RefreshedWhileRunning ==
    /\ lastOp = "openFile"
    /\ \E i \in 1..Len(offered) :
          offered[i].running /\ isRunning(offered[i].w)

\* C4: handleStartVR starts a thread only if none is running, so at most
\* one VR worker is running at any time.
AtMostOneWorkerRunning ==
    Cardinality({w \in WorkerIds : isRunning(w)}) <= 1

----------------------------------------------------------------------------
(* The desktop renderer                                                    *)

\* The parts in the tree that have an actor and are visible.
PartsToShow ==
    {tree[i] : i \in {j \in 1..Len(tree) :
                        parts[tree[j]].actor /\ parts[tree[j]].isVisible}}

\* C6: immediately after updateRender has completed (at the end of a file
\* load or of a deletion) the part actors in the desktop renderer are
\* exactly the actors of the parts in the tree that have one and are
\* visible.
RefreshShowsVisibleParts ==
    (lastOp \in {"openFile", "delete"} /\ ~crashed)
        => viewProps = PartsToShow

\* A refresh has completed with a hidden part in the tree and a visible one
\* in the renderer.
RefreshedWithHiddenPart ==
    /\ lastOp = "openFile" /\ ~crashed
    /\ viewProps # {}
    /\ \E i \in 1..Len(tree) :
          parts[tree[i]].actor /\ ~parts[tree[i]].isVisible

\* C7: every user operation ends with a render refresh, so after any
\* sequence of file loads, dialog commits and deletions the part actors in
\* the desktop renderer are exactly those of the visible parts with an
\* actor.
DesktopShowsVisibleParts ==
    ~crashed => viewProps = PartsToShow

----------------------------------------------------------------------------
(* The secondary actors                                                    *)

\* The colour a VR actor is drawn with: that of the vtkProperty object it
\* references (its own, never touched, when prop is 0).
ActorColor(a) == IF a.prop = 0 THEN "white" ELSE parts[a.prop].actorColor

\* C8: a secondary actor holds its visual properties by value - no step
\* changes the colour or the visibility of an actor a worker already holds.
SecondaryHoldsPropertiesByValue ==
    [][\A w \in WorkerIds : \A i \in 1..Len(workers[w].actors) :
          /\ ActorColor(workers[w].actors[i])'
                = ActorColor(workers[w].actors[i])
          /\ workers'[w].actors[i].vis = workers[w].actors[i].vis]_vars

\* C9: the secondary actor handed to the worker shows the part's derived
\* geometry - whatever filters are in force when VR is started, the
\* geometry of each actor handed over is the geometry bound to the mapper of
\* the part's desktop actor.
SecondaryShowsDerivedGeometry ==
    lastOp = "startVR" =>
        \A i \in 1..Len(offered) :
            offered[i].actor.geom = parts[offered[i].actor.part].mapperGeom

\* C10: VR start queues exactly one secondary actor for every part in the
\* tree that has an actor and is visible, whatever its row, and nothing
\* else.
StartVRQueuesEveryVisiblePart ==
    (lastOp = "startVR" /\ ~crashed) =>
        LET q == workers[vrThread.w].actors IN
        /\ {q[i].part : i \in 1..Len(q)} = PartsToShow
        /\ Len(q) = Cardinality(PartsToShow)

----------------------------------------------------------------------------
(* The scene tree: files are opened, rows are edited and deleted, and      *)
(* removeRow is called on the model directly.                              *)

\* partList->removeRow(row, QModelIndex()) with any row, in range or not
\* (row 1 here is row 0 of the code).
RemoveRow(row) ==
    /\ GuiReady
    /\ LET r == removeRow(tree, row) IN
       Commit([Scene EXCEPT !.tree = r.tree],
              IF r.ret THEN "removeRow" ELSE "removeRowRefused")

NextTree ==
    \/ \E fs \in Batches : openFile(fs)
    \/ \E fs \in Batches : openFileRejected(fs)
    \/ \E row \in 1..MaxParts, name \in Names, c \in Colors, v \in BOOLEAN :
          on_actionItemOptions_triggered(row, name, c, v)
    \/ \E rows \in SUBSET (1..MaxParts) : deleteSelectedItem(rows)
    \/ \E row \in 0..(MaxParts + 1) : RemoveRow(row)

SpecTree == Init /\ [][NextTree]_vars

\* C11: a file whose display name is that of a top-level part, loaded
\* earlier or earlier in the same batch, is rejected - a batch of duplicates
\* changes nothing at all, and any batch leaves every existing part as it
\* was, keeps the existing rows, and adds rows only under names that no
\* existing row and no other new row shows.
DuplicateFileRejected ==
    [][/\ lastOp' = "openFileRejected" =>
            UNCHANGED <<parts, tree, viewProps, extraProps, vrThread,
                        workers, crashed>>
       /\ lastOp' \in {"openFile", "openFileRejected"} =>
            /\ \A p \in 1..Len(parts) : parts'[p] = parts[p]
            /\ Len(tree') >= Len(tree)
            /\ \A i \in 1..Len(tree) : tree'[i] = tree[i]
            /\ \A i \in (Len(tree) + 1)..Len(tree') :
                 /\ parts'[tree'[i]].name \notin TopLevelNames(Scene)
                 /\ \A j \in (Len(tree) + 1)..Len(tree') :
                      parts'[tree'[i]].name = parts'[tree'[j]].name
                          => i = j]_vars

\* A batch of duplicates has been rejected with a recoloured, hidden part in
\* the tree.
DuplicateBatchRejected ==
    /\ lastOp = "openFileRejected"
    /\ \E i \in 1..Len(tree) :
          parts[tree[i]].partColor = "red" /\ ~parts[tree[i]].isVisible

----------------------------------------------------------------------------
(* A file that fails to load                                               *)

Loads(f) == f.ok

\* No file of the batch that fails to load comes before a loadable file of
\* the same display name.
FailuresShadowNothing(fs) ==
    \A k \in 1..Len(fs) : \A j \in (k + 1)..Len(fs) :
        (~fs[k].ok /\ fs[j].ok) => fs[k].name # fs[j].name

\* The rows of the parts that hold a loaded file, in order, each with its
\* part and whether its actor is in the desktop renderer.
RECURSIVE LoadedRowsFrom(_, _)
LoadedRowsFrom(st, i) ==
    IF i > Len(st.tree) THEN <<>>
    ELSE LET p == st.tree[i] IN
         (IF st.parts[p].file
          THEN <<[part |-> st.parts[p], shown |-> p \in st.viewProps]>>
          ELSE <<>>)
         \o LoadedRowsFrom(st, i + 1)

\* The files of the batch that failed to load and were not duplicates are
\* rows of the root without an actor.
RECURSIVE FailedKept(_, _)
FailedKept(st, fs) ==
    IF fs = <<>> \/ st.crashed THEN TRUE
    ELSE LET f == Head(fs)
             s1 == OpenOne(st, f)
             id == Len(st.parts) + 1
         IN /\ (~f.ok /\ f.name \notin TopLevelNames(st)) =>
                 /\ Len(s1.tree) = Len(st.tree) + 1
                 /\ s1.tree[Len(s1.tree)] = id
                 /\ s1.parts[id].m_parentItem = 0
                 /\ ~s1.parts[id].actor /\ id \notin s1.viewProps
                 /\ s1.crashed = st.crashed
            /\ FailedKept(s1, Tail(fs))

PartsOf(rows) == [i \in 1..Len(rows) |-> rows[i].part]

\* The batch leaves what it would have left without its failing files: the
\* same loaded parts in the same order and, when a file of the batch was
\* loaded, the same actors in the renderer.
AsWithoutFailures(fs) ==
    LET after == OpenAll(Scene, fs)
        alone == OpenAll(Scene, SelectSeq(fs, Loads))
    IN /\ PartsOf(LoadedRowsFrom(after, 1)) = PartsOf(LoadedRowsFrom(alone, 1))
       /\ alone.added =>
            LoadedRowsFrom(after, 1) = LoadedRowsFrom(alone, 1)
       /\ after.crashed = alone.crashed
       /\ FailedKept(Scene, fs)

\* C12 as stated: a file whose mesh is empty stays in the tree as a row of
\* the root without an actor, nothing fatal happens, and every other file of
\* the batch is processed exactly as if the failing file had not been in
\* the batch.
FailedLoadLeavesBatchAlone ==
    GuiReady => \A fs \in Batches : AsWithoutFailures(fs)

\* C12, amended: the same, for the files of the batch that do not share
\* their display name with a failing file before them (a loadable file of
\* the same name is rejected as a duplicate of the row the failed file
\* keeps).
FailedLoadLeavesOtherNamesAlone ==
    GuiReady =>
        \A fs \in Batches :
            FailuresShadowNothing(fs) => AsWithoutFailures(fs)

\* A file load has left a row without an actor followed by a row whose
\* actor is in the renderer.
FailedThenLoaded ==
    /\ lastOp = "openFile" /\ ~crashed
    /\ \E i \in 1..Len(tree) : \E j \in (i + 1)..Len(tree) :
          /\ ~parts[tree[i]].file /\ ~parts[tree[i]].actor
          /\ parts[tree[j]].actor /\ tree[j] \in viewProps

----------------------------------------------------------------------------
(* The part: files are opened one at a time, loadable or not, rows are     *)
(* edited in the dialog, and the filter setters of ModelPart are called    *)
(* with any flag and factor.                                               *)

\* part->applyShrinkFilter(enable, factor) on the part of a row; the factor
\* is inside (0, 1] or not.
CallApplyShrinkFilter(row, enable, factor) ==
    /\ GuiReady
    /\ row \in 1..Len(tree)
    /\ LET p == tree[row] IN
       Commit([Scene EXCEPT !.parts[p] =
                 applyShrinkFilter(parts[p], enable, factor)],
              IF factor > 0 /\ factor <= 10
              THEN "applyShrinkFilter" ELSE "applyShrinkFilterOutOfRange")

NextPart ==
    \/ \E f \in FileChoices : openFile(<<f>>)
    \/ \E row \in 1..MaxParts, name \in Names, c \in Colors, v \in BOOLEAN :
          on_actionItemOptions_triggered(row, name, c, v)
    \/ \E row \in 1..MaxParts, b \in BOOLEAN : ApplyClipFilter(row, b)
    \/ \E row \in 1..MaxParts, b \in BOOLEAN, f \in FactorVals :
          CallApplyShrinkFilter(row, b, f)

SpecPart == Init /\ [][NextPart]_vars

\* The rows whose part holds no loaded mesh.
GeometryLess == {p \in 1..Len(parts) : ~parts[p].file}

SetterOps ==
    {"itemOptions", "applyClipFilter", "applyShrinkFilter",
     "applyShrinkFilterOutOfRange"}

\* C13: a part whose file gave no geometry never has an actor, whatever
\* setName, setColor, setVisible, applyClipFilter and applyShrinkFilter are
\* called on it; it is in no renderer, a refresh passes over its row
\* changing nothing and failing nowhere, and the setters leave it in the
\* tree.
GeometryLessPartStaysBare ==
    /\ [](GuiReady =>
            \A i \in 1..Len(tree) :
               tree[i] \in GeometryLess =>
                  /\ ~parts[tree[i]].actor /\ ~parts[tree[i]].source
                  /\ tree[i] \notin viewProps
                  /\ tree[i] \notin updateRender(Scene).viewProps
                  /\ updateRenderFromTree(Scene, tree[i]) = Scene)
    /\ [][lastOp' \in SetterOps =>
            /\ tree' = tree
            /\ GeometryLess' = GeometryLess]_vars

\* A part without geometry has been renamed, coloured, hidden, clipped and
\* shrunk, and is a row of the tree.
BarePartEdited ==
    /\ GuiReady /\ lastOp \in SetterOps
    /\ \E i \in 1..Len(tree) :
          LET pt == parts[tree[i]] IN
          /\ tree[i] \in GeometryLess
          /\ pt.partColor = "red" /\ ~pt.isVisible
          /\ pt.clipEnabled /\ pt.shrinkEnabled /\ pt.shrinkFactor = 5

----------------------------------------------------------------------------
(* The check boxes: files are opened, the first row stays selected, its    *)
(* options are edited, and the Clip and Shrink boxes are toggled.          *)

NextCheckBox ==
    \/ \E f \in FileChoices : openFile(<<f>>)
    \/ \E c \in Colors, v \in BOOLEAN : EditOptions(1, c, v)
    \/ \E b \in BOOLEAN : on_checkBox_Clip_toggled(1, b)
    \/ \E b \in BOOLEAN : on_checkBox_Shrink_toggled(1, b)

SpecCheckBox == Init /\ [][NextCheckBox]_vars

\* The geometry bound to the part's mapper went through a clip, a shrink.
Clipped(pt) ==
    \E i \in 1..Len(pt.mapperGeom) :
        pt.mapperGeom[i][1] \in {"clip", "clipPoly"}

Shrunk(pt) ==
    \E i \in 1..Len(pt.mapperGeom) :
        pt.mapperGeom[i][1] \in {"shrink", "shrinkPoly"}

\* C14: the geometry of a loaded part is its mesh shrunk iff shrink is on,
\* then clipped iff clip is on.  Checked for the step that ticks one box:
\* the filter ticked appears in the geometry and the other filter is in the
\* geometry after the step iff it was before.
TickingOneFilterKeepsTheOther ==
    [][\A p \in 1..Len(parts) :
          /\ (lastOp' = "shrinkToggled" /\ Shrunk(parts'[p])
                  /\ ~Shrunk(parts[p]))
              => (Clipped(parts'[p]) <=> Clipped(parts[p]))
          /\ (lastOp' = "clipToggled" /\ Clipped(parts'[p])
                  /\ ~Clipped(parts[p]))
              => (Shrunk(parts'[p]) <=> Shrunk(parts[p]))]_vars

----------------------------------------------------------------------------
(* Disabling both filters                                                  *)

\* C15: whatever clip and shrink calls were made on a loaded part, with
\* whatever factors, once both filters are disabled the geometry bound to
\* its actor's mapper is the loaded mesh, unfiltered.
BothDisabledRestoresMesh ==
    \A p \in 1..Len(parts) :
        (parts[p].actor /\ ~parts[p].clipEnabled /\ ~parts[p].shrinkEnabled)
            => parts[p].mapperGeom = Original

\* A loaded part that was shrunk with factor 0.5 has both filters disabled,
\* the clip last.
BothFiltersDisabledAgain ==
    /\ lastOp = "applyClipFilter"
    /\ \E p \in 1..Len(parts) :
          /\ parts[p].actor /\ ~parts[p].clipEnabled
          /\ ~parts[p].shrinkEnabled /\ parts[p].shrinkFactor = 5

----------------------------------------------------------------------------
(* A shrink factor out of range                                            *)

\* C16: applyShrinkFilter called with a factor outside (0, 1] changes
\* nothing: the part's shrink flag, its stored factor and the geometry
\* bound to its mapper are after the call what they were before.
OutOfRangeFactorRejected ==
    [][lastOp' = "applyShrinkFilterOutOfRange" =>
          \A p \in 1..Len(parts) :
             /\ parts'[p].shrinkEnabled = parts[p].shrinkEnabled
             /\ parts'[p].shrinkFactor = parts[p].shrinkFactor
             /\ parts'[p].mapperGeom = parts[p].mapperGeom]_vars

----------------------------------------------------------------------------
(* Removal                                                                 *)

\* The parts a traversal from the root meets: the rows of the root.
Reachable(t) == {t[i] : i \in 1..Len(t)}

RemovedPartsReleased ==
    \A p \in 1..Len(parts) :
        p \notin Reachable(tree) =>
            /\ ~parts[p].actor
            /\ p \notin viewProps
            /\ \A w \in WorkerIds :
                  \A i \in 1..Len(workers[w].actors) :
                      workers[w].actors[i].part # p

----------------------------------------------------------------------------
(* The shape of the tree                                                   *)

\* C20: after any insertions and removals the tree has no cycle and every
\* part reachable from the root has one parent: it is in the root's child
\* list exactly once, its parent pointer is the root (0), and it has no
\* children of its own, so no child list leads back to it.
TreeWellFormed ==
    \A p \in Reachable(tree) :
        /\ p \in 1..Len(parts)
        /\ Cardinality({i \in 1..Len(tree) : tree[i] = p}) = 1
        /\ parts[p].m_parentItem = 0
        /\ parts[p].m_childItems = <<>>

\* A file has been opened after a row was removed.
InsertedAfterRemoval ==
    /\ lastOp = "openFile" /\ ~crashed
    /\ Len(parts) = 2 /\ tree = <<2>>

----------------------------------------------------------------------------
(* The refresh traversal on a tree with nested parts: files are opened,    *)
(* rows edited and deleted, and ModelPart::appendChild is called on a      *)
(* top-level part with a new part.                                         *)

\* partList->getRootItem()->child(row)->appendChild(new ModelPart(data)):
\* the new part gets the part of the row as parent and is appended to that
\* part's child list.
AppendChildToPart(row, name) ==
    /\ GuiReady
    /\ row \in 1..Len(tree)
    /\ Len(parts) < MaxParts
    /\ LET p == tree[row]
           id == Len(parts) + 1
       IN Commit([Scene EXCEPT
                    !.parts = Append([@ EXCEPT ![p].m_childItems =
                                                  Append(@, id)],
                                     [NewPart(name) EXCEPT
                                        !.m_parentItem = p])],
                 "appendChildToPart")

NextNest ==
    \/ \E f \in FileChoices : openFile(<<f>>)
    \/ \E row \in 1..MaxParts, name \in Names : AppendChildToPart(row, name)
    \/ \E row \in 1..MaxParts, c \in Colors, v \in BOOLEAN :
          EditOptions(row, c, v)
    \/ \E rows \in SUBSET (1..MaxParts) : deleteSelectedItem(rows)

SpecNest == Init /\ [][NextNest]_vars

\* The parts of the tree in pre-order: a part, then the subtrees of its
\* children in the order of its child list.
RECURSIVE PreOrderOf(_, _)
RECURSIVE PreOrderOfList(_, _)
PreOrderOf(st, p) == <<p>> \o PreOrderOfList(st, st.parts[p].m_childItems)

PreOrderOfList(st, ps) ==
    IF ps = <<>> THEN <<>>
    ELSE PreOrderOf(st, Head(ps)) \o PreOrderOfList(st, Tail(ps))

\* C21: the render refresh visits every part of the tree exactly once, in
\* pre-order - a parent before its children, children in insertion order -
\* and returns, also when a part below the root has children of its own.
\* (With no worker pointer in play, so that the refresh makes no call
\* through it.)
RefreshVisitsPreOrder ==
    (GuiReady /\ vrThread = NullThread) =>
        LET r == updateRender(Scene) IN
        /\ ~r.crashed
        /\ r.visited = PreOrderOfList(Scene, tree)

----------------------------------------------------------------------------
(* Commands to a worker that has not been started                          *)

\* C22: issueCommand on a worker that is constructed and not started is a
\* no-op - a step the GUI thread takes inside issueCommand on such a worker
\* leaves its rotation increments and the visibility of its pre-queued
\* actors as they were.
CommandToIdleWorkerIsNoOp ==
    [][\A w \in WorkerIds :
          (gui.pc \in {"issue", "toggleNext"} /\ gui.w = w
              /\ workers[w].running = "idle")
          => /\ workers'[w].rotateX = workers[w].rotateX
             /\ workers'[w].rotateY = workers[w].rotateY
             /\ workers'[w].rotateZ = workers[w].rotateZ
             /\ \A i \in 1..Len(workers[w].actors) :
                   workers'[w].actors[i].vis = workers[w].actors[i].vis]_vars

\* C23: clearAllActors() removes all actors from the VR scene - when the
\* GUI thread returns from it, the collection addActorOffline fills and
\* run() binds to the VR renderer is empty.
ClearAllActorsEmptiesCollection ==
    [][(gui.pc = "clearBody" /\ gui'.pc = "idle")
          => workers'[gui.w].actors = <<>>]_vars

----------------------------------------------------------------------------
(* The notifications of the tree model                                     *)

\* Every change of a child list in the sequence is after a begin
\* notification of its kind and before the matching end; open is the
\* bracket the sequence is inside of.
RECURSIVE Bracketed(_, _)
Bracketed(ns, open) ==
    IF ns = <<>> THEN open = "none"
    ELSE LET n == Head(ns) IN
         CASE n = "beginInsertRows" ->
                open = "none" /\ Bracketed(Tail(ns), "insert")
           [] n = "beginRemoveRows" ->
                open = "none" /\ Bracketed(Tail(ns), "remove")
           [] n = "appendChild" ->
                open = "insert" /\ Bracketed(Tail(ns), open)
           [] n = "removeChild" ->
                open = "remove" /\ Bracketed(Tail(ns), open)
           [] n = "endInsertRows" ->
                open = "insert" /\ Bracketed(Tail(ns), "none")
           [] n = "endRemoveRows" ->
                open = "remove" /\ Bracketed(Tail(ns), "none")

\* C24: every change the tree model makes to a child list is bracketed by
\* notifications - whatever batch is opened, whatever rows are deleted and
\* whatever row removeRow is called with, the begin notification comes
\* before the list changes, the matching end after it, and the list does
\* not change outside a bracket; a refused removeRow notifies nothing.
ListChangesBracketed ==
    GuiReady =>
        /\ \A fs \in Batches : Bracketed(OpenAll(Scene, fs).notes, "none")
        /\ \A rows \in (SUBSET (1..Len(tree))) \ {{}} :
              /\ Bracketed(DeleteRows(Scene, rows).notes, "none")
              /\ Len(DeleteRows(Scene, rows).notes) = 3 * Cardinality(rows)
        /\ \A row \in 0..(MaxParts + 1) :
              /\ Bracketed(removeRow(tree, row).notes, "none")
              /\ (removeRow(tree, row).notes = <<>>)
                    <=> ~removeRow(tree, row).ret

\* Files have been opened into two rows of the tree, and deleting both
\* makes two brackets.
TwoRowsTwoBrackets ==
    /\ GuiReady /\ lastOp = "openFile" /\ Len(tree) = 2
    /\ DeleteRows(Scene, {1, 2}).notes =
          <<"beginRemoveRows", "removeChild", "endRemoveRows",
            "beginRemoveRows", "removeChild", "endRemoveRows">>

----------------------------------------------------------------------------
(* The render thread: binding, the loop, the stop, the increments          *)

\* Worker w has left the binding loop of run(): it is at the reset before
\* the render loop, inside the loop, or has returned.
PastBinding(w) ==
    /\ workers[w].running # "idle"
    /\ workers[w].pc \notin {"bindInit", "bindNext"}

\* C25: start() binds all pre-queued actors - once the worker is past the
\* binding loop, every actor added with addActorOffline before start() is
\* in the VR renderer, whatever issueCommand calls the GUI thread has made
\* since start().
StartBindsEveryQueuedActor ==
    \A w \in WorkerIds :
        PastBinding(w) =>
            workers[w].vrRenderer = 1..Len(workers[w].actors)

\* The angles the loop has turned actor i of worker record s by.
Angles(s, i) == <<s.actors[i].rx, s.actors[i].ry, s.actors[i].rz>>

\* The angles of actor i after the loop over one axis has turned it.
Turned(s, i, axis) ==
    LET a == s.actors[i] IN
    CASE axis = "rotX" -> <<(a.rx + s.rotateX) % 360, a.ry, a.rz>>
      [] axis = "rotY" -> <<a.rx, (a.ry + s.rotateY) % 360, a.rz>>
      [] axis = "rotZ" -> <<a.rx, a.ry, (a.rz + s.rotateZ) % 360>>

\* C26: a turn of the render loop handles one event and then tests the
\* gate; actors are turned only in a turn whose gate has tripped, and
\* there every actor in the VR renderer is turned once about X, then once
\* about Y, then once about Z, by the increment set at that moment, and the
\* gate is reset before the next turn.
LoopTurnsActorsOncePerAxis ==
    [][\A w \in WorkerIds :
          LET s == workers[w]
              t == workers'[w]
          IN (isRunning(w) /\ t.pc # s.pc) =>
               /\ s.pc = "test" => t.pc \in {"event", "done"}
               /\ s.pc = "event" => t.pc = "gate"
               /\ s.pc = "gate" =>
                     /\ t.pc = (IF t.tripped THEN "rotX" ELSE "test")
               /\ s.pc = "rotX" => t.pc = "rotY"
               /\ s.pc = "rotY" => t.pc = "rotZ"
               /\ s.pc = "rotZ" => t.pc = "test" /\ ~t.tripped
               /\ Len(t.actors) = Len(s.actors)
               /\ \A i \in 1..Len(s.actors) :
                     IF s.pc \in {"rotX", "rotY", "rotZ"}
                           /\ i \in s.vrRenderer
                     THEN s.tripped /\ Angles(t, i) = Turned(s, i, s.pc)
                     ELSE Angles(t, i) = Angles(s, i)]_vars

\* A worker has finished a turn of its loop in which the gate had tripped:
\* an actor in its renderer is turned by 180 degrees about each axis.
TurnWithRotationDone ==
    \E w \in WorkerIds :
        /\ isRunning(w) /\ workers[w].pc = "test" /\ ~workers[w].tripped
        /\ \E i \in workers[w].vrRenderer :
              Angles(workers[w], i) = <<180, 180, 180>>

\* Worker w is inside the render loop of run(), the stop flag reset behind
\* it.
InLoop(w) ==
    /\ isRunning(w)
    /\ workers[w].pc \in {"test", "event", "gate", "rotX", "rotY", "rotZ"}

\* C27: once the worker is inside its loop and the stop flag is set, the
\* flag stays set, the next test of the loop condition ends the loop - no
\* further turn, hence no further event, is begun after it - the thread
\* finishes, and a finished worker turns no actor.
StopEndsLoopAtNextTest ==
    /\ [][\A w \in WorkerIds :
            LET s == workers[w]
                t == workers'[w]
            IN /\ (InLoop(w) /\ s.endRender) => t.endRender
               /\ (InLoop(w) /\ s.endRender /\ s.pc = "test")
                     => t.pc \in {"test", "done"}
               /\ (s.pc = "test" /\ t.pc = "done")
                     => t.running = "finished"
               /\ s.running = "finished" =>
                     /\ t.running = "finished"
                     /\ \A i \in 1..Len(s.actors) :
                           Angles(t, i) = Angles(s, i)]_vars
    /\ \A w \in 1..MaxWorkers :
          (w \in WorkerIds /\ InLoop(w) /\ workers[w].endRender)
              ~> (w \in WorkerIds /\ workers[w].running = "finished")

\* A worker has left its loop because of the stop flag, set while it was
\* inside the loop: the interactor was not done.
StoppedByFlag ==
    \E w \in WorkerIds :
        /\ workers[w].running = "finished"
        /\ workers[w].endRender /\ ~workers[w].done
        /\ workers[w].vrRenderer # {}

----------------------------------------------------------------------------
(* The identity of a part's actor                                          *)

\* C28: once loadSTL has succeeded, no call of applyClipFilter,
\* applyShrinkFilter, setColor, setVisible or setName replaces the actor
\* getActor() returns - the part keeps the actor object it had, bound to
\* whatever geometry the call derived.
ActorIdentityStable ==
    [][lastOp' \in SetterOps =>
          \A p \in 1..Len(parts) :
             parts[p].actor =>
                /\ parts'[p].actor
                /\ parts'[p].actorId = parts[p].actorId]_vars

\* A loaded part has been recoloured, hidden, and its geometry derived
\* anew with both filters on; its actor is the one loadSTL created.
ActorReboundToDerivedGeometry ==
    /\ lastOp \in {"applyClipFilter", "applyShrinkFilter"}
    /\ \E p \in 1..Len(parts) :
          /\ parts[p].actor /\ parts[p].actorId = 1
          /\ parts[p].partColor = "red" /\ ~parts[p].isVisible
          /\ parts[p].mapperGeom = << <<"shrink", 5>>, <<"clip", 0>> >>

----------------------------------------------------------------------------
(* The actors a worker holds for a part                                    *)

\* The actors of worker w made from part p.
ActorsOfPart(w, p) ==
    {i \in 1..Len(workers[w].actors) : workers[w].actors[i].part = p}

\* C29: a worker's collection never holds more than one actor per part,
\* whatever VR starts, worker terminations and refreshes (file loads,
\* deletions) have happened.
OneSecondaryActorPerPart ==
    \A w \in WorkerIds : \A p \in 1..Len(parts) :
        Cardinality(ActorsOfPart(w, p)) <= 1

----------------------------------------------------------------------------
(* setRotation against the render loop: actors are pre-queued, the thread  *)
(* is started, and the GUI thread sets the increments with setRotation     *)
(* only, the same angle for the three axes.                                *)

NextRot ==
    \/ \E w \in WorkerIds : AddActorOffline(w)
    \/ \E w \in WorkerIds : Start(w)
    \/ \E w \in WorkerIds, r \in RotVals : CallSetRotation(w, r, r, r)
    \/ SetRotationX \/ SetRotationY \/ SetRotationZ
    \/ \E w \in WorkerIds : Run(w)

SpecRot == InitVR /\ [][NextRot]_vars

\* C30: setRotation takes effect atomically for the worker's animation
\* step - no turn of the loop applies increments of two different
\* setRotation calls.  Every call here passes one angle for the three
\* axes, so between turns every actor in the renderer has been turned by
\* the same angle about X, Y and Z.
TurnAppliesOneSetRotation ==
    \A w \in WorkerIds :
        workers[w].pc \notin {"rotX", "rotY", "rotZ"} =>
            \A i \in workers[w].vrRenderer :
                /\ workers[w].actors[i].rx = workers[w].actors[i].ry
                /\ workers[w].actors[i].ry = workers[w].actors[i].rz

----------------------------------------------------------------------------
(* The part's setters before and after its load: rows are appended to the  *)
(* model, setColor, setVisible and loadSTL are called on their parts in    *)
(* any order.                                                              *)

\* partList->appendChild(data) alone.
AppendRow(name) ==
    /\ GuiReady
    /\ Len(parts) < MaxParts
    /\ Commit(appendChild(Scene, name), "appendChild")

\* part->setColor(c), part->setVisible(v) on the part of a row.
SetColor(row, c) ==
    /\ GuiReady
    /\ row \in 1..Len(tree)
    /\ Commit([Scene EXCEPT !.parts[tree[row]] = setColor(@, c)], "setColor")

SetVisible(row, v) ==
    /\ GuiReady
    /\ row \in 1..Len(tree)
    /\ Commit([Scene EXCEPT !.parts[tree[row]] = setVisible(@, v)],
              "setVisible")

\* part->loadSTL(fileName) on a part that holds no mesh yet.
LoadSTL(row, ok) ==
    /\ GuiReady
    /\ row \in 1..Len(tree)
    /\ ~parts[tree[row]].file
    /\ Commit([Scene EXCEPT !.parts[tree[row]] = loadSTL(@, ok)], "loadSTL")

NextLoad ==
    \/ \E name \in Names : AppendRow(name)
    \/ \E row \in 1..MaxParts, c \in Colors : SetColor(row, c)
    \/ \E row \in 1..MaxParts, v \in BOOLEAN : SetVisible(row, v)
    \/ \E row \in 1..MaxParts, ok \in BOOLEAN : LoadSTL(row, ok)

SpecLoad == Init /\ [][NextLoad]_vars

\* C31: whenever a part has an actor, the actor's visibility is the part's
\* visible flag, its colour the part's stored colour, and the text of
\* column 1 is "true" exactly when the flag is true - after setColor,
\* setVisible and loadSTL in any order, the setters before the load too.
ActorMirrorsPart ==
    \A p \in 1..Len(parts) :
        parts[p].actor =>
            /\ parts[p].actorVis = parts[p].isVisible
            /\ parts[p].actorColor = parts[p].partColor
            /\ (parts[p].text1 = "true") <=> parts[p].isVisible


\* C32: while VR has never been started (no worker was ever constructed),
\* a render refresh makes no call on a VR worker, whatever value the
\* window's worker pointer started with.
NoWorkerCallBeforeStart == (Len(workers) = 0) => ~crashed

-----------------------------------------------------------------------------
(* The skybox: files are opened, rows are deleted, a skybox is loaded.     *)

\* onLoadSkyboxClicked(): with no folder chosen the handler returns; else
\* AddSkyboxToRenderer adds a vtkSkybox to the desktop renderer with
\* AddActor, and the window is redrawn with Render(): the renderer's props
\* are not rebuilt. extraProps records that a skybox is among the props.
onLoadSkyboxClicked(chosen) ==
    /\ GuiReady
    /\ IF chosen
       THEN Commit([Scene EXCEPT !.extraProps = @ \cup {"skybox"}],
                   "loadSkybox")
       ELSE Commit(Scene, "loadSkyboxCancelled")

NextSky ==
    \/ \E fs \in Batches : openFile(fs)
    \/ \E rows \in SUBSET (1..MaxParts) : deleteSelectedItem(rows)
    \/ \E chosen \in BOOLEAN : onLoadSkyboxClicked(chosen)

SpecSky == Init /\ [][NextSky]_vars

\* C33: a skybox that onLoadSkyboxClicked added to the renderer is still
\* among the renderer's props after a later render refresh (the refresh that
\* ends openFile and deleteSelectedItem).
SkyboxSurvivesRefresh ==
    [][("skybox" \in extraProps /\ lastOp' \in {"openFile", "delete"})
          => "skybox" \in extraProps']_vars

-----------------------------------------------------------------------------
(* The order of the selection in deleteSelectedItem                        *)

\* selectionModel->selectedRows() for the selected rows: one index per row,
\* in the order the selection model reports them - any order.
Selections(rows) ==
    {sel \in [1..Cardinality(rows) -> rows] :
        \A i, j \in 1..Cardinality(rows) : i # j => sel[i] # sel[j]}

\* The row r put into a list of rows that is in descending order.
RECURSIVE InsertByRow(_, _)
InsertByRow(sorted, r) ==
    IF sorted = <<>> THEN <<r>>
    ELSE IF r > Head(sorted) THEN <<r>> \o sorted
    ELSE <<Head(sorted)>> \o InsertByRow(Tail(sorted), r)

RECURSIVE SortInto(_, _)
SortInto(sel, sorted) ==
    IF sel = <<>> THEN sorted
    ELSE SortInto(Tail(sel), InsertByRow(sorted, Head(sel)))

\* A deletion loop that takes the indexes as the selection model gave them.
SelectionAsGiven(sel) == sel

\* std::sort(selectedIndexes.begin(), selectedIndexes.end(), a.row() >
\* b.row()): the indexes in descending order of row.
SortDescending(sel) == SortInto(sel, <<>>)

\* for (index : selectedIndexes) partList->removeRow(index.row(), ...): the
\* rows removed one after the other in the order of the list; a removeRow
\* that is refused leaves the tree as it is.
RECURSIVE RemoveEach(_, _)
RemoveEach(t, sel) ==
    IF sel = <<>> THEN t
    ELSE RemoveEach(removeRow(t, Head(sel)).tree, Tail(sel))

\* deleteSelectedItem once the user has confirmed, for the selection sel:
\* the indexes are sorted, the rows removed, the renderer refreshed.
DeleteSelection(st, sel) ==
    updateRender([st EXCEPT
                     !.tree = RemoveEach(st.tree, SortDescending(sel))])

\* The child lists of a root with up to MaxRows parts, in any order.
RowLists ==
    UNION {{t \in [1..n -> 1..MaxRows] :
               \A i, j \in 1..n : i # j => t[i] # t[j]} : n \in 0..MaxRows}

\* C34: deleting k distinct top-level rows removes the parts of exactly
\* those k rows, in whatever order the selection lists them: the rows left
\* are the unselected parts in their original order, k fewer than before,
\* and the result is that of removing the rows highest first. This holds of
\* the sorted removal loop on every child list of up to MaxRows parts, and
\* of the whole handler on the tree the window has.
DeletionIgnoresSelectionOrder ==
    /\ \A t \in RowLists :
          \A rows \in (SUBSET (1..Len(t))) \ {{}} :
              \A sel \in Selections(rows) :
                  LET left == RemoveEach(t, SortDescending(sel)) IN
                  /\ left = SelectSeq(t, LAMBDA p :
                                            p \notin {t[r] : r \in rows})
                  /\ Len(left) = Len(t) - Cardinality(rows)
    /\ GuiReady =>
        \A rows \in (SUBSET (1..Len(tree))) \ {{}} :
            \A sel \in Selections(rows) :
                LET after == DeleteSelection(Scene, sel)
                    removed == {tree[r] : r \in rows}
                IN /\ after.tree =
                         SelectSeq(tree, LAMBDA p : p \notin removed)
                   /\ Len(after.tree) = Len(tree) - Cardinality(rows)
                   /\ after.tree = DeleteRows(Scene, rows).tree
                   /\ after.viewProps = DeleteRows(Scene, rows).viewProps
                   /\ after.parts = parts

\* Two rows are in the tree, and a selection that lists them lowest first
\* is sorted highest first and deletes both.
AscendingSelectionDeleted ==
    /\ GuiReady /\ Len(tree) = 2 /\ Len(parts) >= 2
    /\ SortDescending(<<1, 2>>) = <<2, 1>>
    /\ DeleteSelection(Scene, <<1, 2>>).tree = <<>>


====
